---- MODULE Spec2Model ----
(***************************************************************************)
(* A model of three packages of the goutil repository:                     *)
(*   termenv  - terminal color level detection and the process-wide color  *)
(*              flags (noColor, supportColor, colorLevel, backOldVal, the   *)
(*              one-shot WSL probe cache, the last-error slot);             *)
(*   testutil - mocking of the process environment;                        *)
(*   cflag    - App.RunWithArgs and its hooks.                              *)
(* Go strings are TLA+ strings; the process environment is a function from *)
(* the names that are set to their values.                                 *)
(***************************************************************************)
EXTENDS Integers, Sequences, FiniteSets, TLC

VARIABLES
    env,          \* the process environment: [names that are set -> value]
    isWin,        \* runtime.GOOS == "windows"
    procVersion,  \* the file /proc/version: [exists, text]
    noColor,      \* termenv: package variable noColor
    supportColor, \* termenv: package variable supportColor
    colorLevel,   \* termenv: package variable colorLevel
    backOldVal,   \* termenv: package variable backOldVal
    lastErr,      \* termenv: the last-error slot written by setLastErr
    detectedWSL,  \* termenv: package variable detectedWSL
    wslContents,  \* termenv: package variable wslContents
    level,        \* the ColorLevel returned by the last detection call
    needVTP,      \* the needVTP returned by the last detectTermColorLevel
    lastOp,       \* the operation that ran last
    preForce,     \* history: <<supportColor when the latest ForceEnableColor was entered>>
    wslFirst,     \* history: <<what the first detectWSL() call returned>>, <<>> before it
    wslLast,      \* history: <<what the latest detectWSL() call returned>>
    probeOpens,   \* history: how many times /proc/version was opened
    envBak,       \* testutil: package variable envBak, os.Environ() at start
    envGroupSet,  \* testutil: package variable envGroupSet: [tmpKey -> map]
    clock,        \* time.Now().UnixMicro()
    envBefore,    \* history: the environment when the last mock call was entered
    envInFn,      \* history: the environment when the last mock call entered fn
    mockMp,       \* history: the map given to the last mock call
    appName,      \* cflag: App.Name
    names,        \* cflag: App.names
    cmds,         \* cflag: App.cmds: [name -> Cmd]
    nameWidth,    \* cflag: App.NameWidth
    helpWriter,   \* cflag: App.HelpWriter
    hooks,        \* cflag: which of the App's hook funcs are not nil
    panicked,     \* cflag: a panic ended the program
    runArgs,      \* the args of the last RunWithArgs
    trace,        \* history: the hooks and steps the last RunWithArgs went through
    runErr        \* the error the last RunWithArgs returned

termVars == <<env, isWin, procVersion, noColor, supportColor, colorLevel,
              backOldVal, lastErr, detectedWSL, wslContents, level, needVTP,
              lastOp, preForce, wslFirst, wslLast, probeOpens>>

testVars == <<envBak, envGroupSet, clock, envBefore, envInFn, mockMp>>

appVars == <<appName, names, cmds, nameWidth, helpWriter, hooks, panicked,
             runArgs, trace, runErr>>

vars == <<termVars, testVars, appVars>>

\* the termenv variables other than the two every package shares
termRest == <<isWin, procVersion, noColor, supportColor, colorLevel, backOldVal,
              lastErr, detectedWSL, wslContents, level, needVTP, preForce,
              wslFirst, wslLast, probeOpens>>

-----------------------------------------------------------------------------
(* Go library functions used by the code.                                  *)

\* strings.Contains(s, substr)
Contains(s, substr) ==
    \E i \in 1..(Len(s) - Len(substr) + 1) : SubSeq(s, i, i + Len(substr) - 1) = substr

\* the position of the first occurrence of sep in s, 0 when there is none
IndexOf(s, sep) ==
    IF Contains(s, sep)
    THEN CHOOSE i \in 1..Len(s) :
            /\ SubSeq(s, i, i + Len(sep) - 1) = sep
            /\ \A j \in 1..(i - 1) : SubSeq(s, j, j + Len(sep) - 1) # sep
    ELSE 0

\* strings.Split(s, sep)[0]: the text before the first sep, all of s without one
SplitFirst(s, sep) ==
    IF IndexOf(s, sep) = 0 THEN s ELSE SubSeq(s, 1, IndexOf(s, sep) - 1)

\* strings.SplitN(s, sep, 2): at most two nodes, cut at the first sep
SplitN2(s, sep) ==
    IF IndexOf(s, sep) = 0 THEN <<s>>
    ELSE <<SubSeq(s, 1, IndexOf(s, sep) - 1),
           SubSeq(s, IndexOf(s, sep) + Len(sep), Len(s))>>

Digits == "0123456789"

IsDigit(c) == \E d \in 1..10 : SubSeq(Digits, d, d) = c

DigitVal(c) == (CHOOSE d \in 1..10 : SubSeq(Digits, d, d) = c) - 1

RECURSIVE DecimalVal(_)
DecimalVal(s) ==
    IF Len(s) = 0 THEN 0
    ELSE 10 * DecimalVal(SubSeq(s, 1, Len(s) - 1)) + DigitVal(SubSeq(s, Len(s), Len(s)))

\* strconv.Atoi(s): an optional sign, then one or more decimal digits
Atoi(s) ==
    LET signed == Len(s) > 0 /\ SubSeq(s, 1, 1) \in {"+", "-"}
        body   == IF signed THEN SubSeq(s, 2, Len(s)) ELSE s
        ok     == Len(body) > 0 /\ \A i \in 1..Len(body) : IsDigit(SubSeq(body, i, i))
    IN  IF ~ok THEN [ok |-> FALSE, val |-> 0]
        ELSE [ok |-> TRUE,
              val |-> IF signed /\ SubSeq(s, 1, 1) = "-"
                      THEN 0 - DecimalVal(body) ELSE DecimalVal(body)]

\* os.Getenv(key) in environment e: the value, "" when the name is not set
Getenv(e, key) == IF key \in DOMAIN e THEN e[key] ELSE ""

\* os.LookupEnv(key): whether the name is set at all
IsSet(e, key) == key \in DOMAIN e

\* os.Setenv(key, val) on environment e
SetenvIn(e, key, val) == [k \in (DOMAIN e) \cup {key} |-> IF k = key THEN val ELSE e[k]]

\* os.Unsetenv(key) on environment e
UnsetenvIn(e, key) == [k \in (DOMAIN e) \ {key} |-> e[k]]

\* os.Clearenv()
EmptyEnv == [k \in {} |-> ""]

-----------------------------------------------------------------------------
(* termenv: ColorLevel and the queries.                                    *)

TermColorNone == 0
TermColor16   == 1
TermColor256  == 2
TermColorTrue == 3

ColorLevels == {TermColorNone, TermColor16, TermColor256, TermColorTrue}

noTrueColorTerm == "screen"

NoErr == ""
ErrInvalidTermProgramVersion == "terminfo: invalid TERM_PROGRAM_VERSION"
ErrClose == "close /proc/version"

NoColor == noColor

IsSupportColor == colorLevel # TermColorNone

IsSupport256Color == colorLevel >= TermColor256

IsSupportTrueColor == colorLevel = TermColorTrue

\* setLastErr(err): keeps the error in the last-error slot
setLastErr(slot, err) == IF err # NoErr THEN err ELSE slot

-----------------------------------------------------------------------------
(* termenv: detection.                                                     *)

\* b := make([]byte, 1024)
ReadBufSize == 1024

\* f.Read(b); string(b): the first ReadBufSize bytes of the file (the zero
\* bytes that fill the rest of the buffer hold no marker and are left out)
ReadBuf(text) == IF Len(text) <= ReadBufSize THEN text ELSE SubSeq(text, 1, ReadBufSize)

\* detectWSL(): the body, as a function of the cache and of the probe file.
\* closeFails is whether f.Close() reports an error.
detectWSL(detected, contents, slot, file, closeFails) ==
    IF ~detected
    THEN IF file.exists
         THEN [ret         |-> Contains(ReadBuf(file.text), "Microsoft"),
               detectedWSL |-> TRUE,
               wslContents |-> ReadBuf(file.text),
               lastErr     |-> IF closeFails THEN setLastErr(slot, ErrClose) ELSE slot,
               opened      |-> 1]
         ELSE [ret         |-> FALSE,
               detectedWSL |-> TRUE,
               wslContents |-> contents,
               lastErr     |-> slot,
               opened      |-> 1]
    ELSE [ret         |-> FALSE,
          detectedWSL |-> detected,
          wslContents |-> contents,
          lastErr     |-> slot,
          opened      |-> 0]

\* detectColorLevelFromEnv with the error branch returning TermColorNone
detectColorLevelFromEnv_errNone(termVal, win, e, slot) ==
    LET colorTerm  == Getenv(e, "COLORTERM")
        termProg   == Getenv(e, "TERM_PROGRAM")
        forceColor == Getenv(e, "FORCE_COLOR")
        termVer    == Getenv(e, "TERM_PROGRAM_VERSION")
        i          == Atoi(SplitFirst(termVer, "."))
    IN  IF termVal = noTrueColorTerm
        THEN [level |-> TermColor256, lastErr |-> slot]
        ELSE IF Contains(colorTerm, "truecolor") \/ Contains(colorTerm, "24bit")
        THEN [level |-> TermColorTrue, lastErr |-> slot]
        ELSE IF colorTerm # "" \/ forceColor # ""
        THEN [level |-> TermColor16, lastErr |-> slot]
        ELSE IF termProg = "Apple_Terminal"
        THEN [level |-> TermColor256, lastErr |-> slot]
        ELSE IF termProg = "Terminus" \/ termProg = "Hyper"
        THEN [level |-> TermColorTrue, lastErr |-> slot]
        ELSE IF termProg = "iTerm.app"
        THEN IF termVer # "" /\ ~i.ok
             THEN [level |-> TermColorNone,
                   lastErr |-> setLastErr(slot, ErrInvalidTermProgramVersion)]
             ELSE IF termVer # "" /\ i.val = 3
             THEN [level |-> TermColorTrue, lastErr |-> slot]
             ELSE [level |-> TermColor256, lastErr |-> slot]
        ELSE IF ~win /\ termVal # ""
        THEN [level |-> TermColor16, lastErr |-> slot]
        ELSE [level |-> TermColorNone, lastErr |-> slot]

\* detectColorLevelFromEnv with the second and third cases of the switch swapped
detectColorLevelFromEnv_swapped(termVal, win, e, slot) ==
    LET colorTerm  == Getenv(e, "COLORTERM")
        termProg   == Getenv(e, "TERM_PROGRAM")
        forceColor == Getenv(e, "FORCE_COLOR")
        termVer    == Getenv(e, "TERM_PROGRAM_VERSION")
        i          == Atoi(SplitFirst(termVer, "."))
    IN  IF termVal = noTrueColorTerm
        THEN [level |-> TermColor256, lastErr |-> slot]
        ELSE IF colorTerm # "" \/ forceColor # ""
        THEN [level |-> TermColor16, lastErr |-> slot]
        ELSE IF Contains(colorTerm, "truecolor") \/ Contains(colorTerm, "24bit")
        THEN [level |-> TermColorTrue, lastErr |-> slot]
        ELSE IF termProg = "Apple_Terminal"
        THEN [level |-> TermColor256, lastErr |-> slot]
        ELSE IF termProg = "Terminus" \/ termProg = "Hyper"
        THEN [level |-> TermColorTrue, lastErr |-> slot]
        ELSE IF termProg = "iTerm.app"
        THEN IF termVer # "" /\ ~i.ok
             THEN [level |-> TermColor256,
                   lastErr |-> setLastErr(slot, ErrInvalidTermProgramVersion)]
             ELSE IF termVer # "" /\ i.val = 3
             THEN [level |-> TermColorTrue, lastErr |-> slot]
             ELSE [level |-> TermColor256, lastErr |-> slot]
        ELSE IF ~win /\ termVal # ""
        THEN [level |-> TermColor16, lastErr |-> slot]
        ELSE [level |-> TermColorNone, lastErr |-> slot]

\* detectColorLevelFromEnv(termVal, isWin) in environment e: the level it
\* returns and the last-error slot it leaves
detectColorLevelFromEnv(termVal, win, e, slot) ==
    LET colorTerm  == Getenv(e, "COLORTERM")
        termProg   == Getenv(e, "TERM_PROGRAM")
        forceColor == Getenv(e, "FORCE_COLOR")
        termVer    == Getenv(e, "TERM_PROGRAM_VERSION")
        i          == Atoi(SplitFirst(termVer, "."))
    IN  IF termVal = noTrueColorTerm
        THEN [level |-> TermColor256, lastErr |-> slot]
        ELSE IF Contains(colorTerm, "truecolor") \/ Contains(colorTerm, "24bit")
        THEN [level |-> TermColorTrue, lastErr |-> slot]
        ELSE IF colorTerm # "" \/ forceColor # ""
        THEN [level |-> TermColor16, lastErr |-> slot]
        ELSE IF termProg = "Apple_Terminal"
        THEN [level |-> TermColor256, lastErr |-> slot]
        ELSE IF termProg = "Terminus" \/ termProg = "Hyper"
        THEN [level |-> TermColorTrue, lastErr |-> slot]
        ELSE IF termProg = "iTerm.app"
        THEN IF termVer # "" /\ ~i.ok
             THEN [level |-> TermColor256,
                   lastErr |-> setLastErr(slot, ErrInvalidTermProgramVersion)]
             ELSE IF termVer # "" /\ i.val = 3
             THEN [level |-> TermColorTrue, lastErr |-> slot]
             ELSE [level |-> TermColor256, lastErr |-> slot]
        ELSE IF ~win /\ termVal # ""
        THEN [level |-> TermColor16, lastErr |-> slot]
        ELSE [level |-> TermColorNone, lastErr |-> slot]

\* The table of special terminals the fallback knows: TERM value -> level.
SpecialTermLevel(termVal) ==
    IF Contains(termVal, "256color") THEN TermColor256
    ELSE IF Contains(termVal, "xterm") THEN TermColor256
    ELSE IF termVal = "cygwin" THEN TermColor16
    ELSE TermColorNone

\* detectSpecialTermColor(termVal): the fallback for a level of none.  It
\* looks TERM up in the table of special terminals and asks for virtual
\* terminal processing on Windows when the table upgrades the level.
detectSpecialTermColor(termVal, win) ==
    [level   |-> SpecialTermLevel(termVal),
     needVTP |-> win /\ SpecialTermLevel(termVal) # TermColorNone]

\* detectTermColorLevel with the JetBrains check made for every TERM
detectTermColorLevel_noScreenGuard(win, e, slot) ==
    LET termVal == Getenv(e, "TERM")
        fromEnv == detectColorLevelFromEnv(termVal, win, e, slot)
        special == detectSpecialTermColor(termVal, win)
    IN  IF Getenv(e, "TERMINAL_EMULATOR") = "JetBrains-JediTerm"
        THEN [level |-> TermColorTrue, needVTP |-> FALSE, lastErr |-> slot]
        ELSE IF fromEnv.level = TermColorNone
        THEN [level |-> special.level, needVTP |-> special.needVTP,
              lastErr |-> fromEnv.lastErr]
        ELSE [level |-> fromEnv.level, needVTP |-> FALSE, lastErr |-> fromEnv.lastErr]

\* detectTermColorLevel(): level, needVTP and what it leaves in the
\* last-error slot
detectTermColorLevel(win, e, slot) ==
    LET termVal == Getenv(e, "TERM")
        fromEnv == detectColorLevelFromEnv(termVal, win, e, slot)
        special == detectSpecialTermColor(termVal, win)
    IN  IF termVal # noTrueColorTerm
           /\ Getenv(e, "TERMINAL_EMULATOR") = "JetBrains-JediTerm"
        THEN [level |-> TermColorTrue, needVTP |-> FALSE, lastErr |-> slot]
        ELSE IF fromEnv.level = TermColorNone
        THEN [level |-> special.level, needVTP |-> special.needVTP,
              lastErr |-> fromEnv.lastErr]
        ELSE [level |-> fromEnv.level, needVTP |-> FALSE, lastErr |-> fromEnv.lastErr]

-----------------------------------------------------------------------------
(* termenv: the state after package initialisation, and the operations.    *)

Unset == "<unset>"

\* the environment holding the names of r whose value is not Unset
MkEnv(r) == [k \in {n \in DOMAIN r : r[n] # Unset} |-> r[k]]

\* the probe files: none (a host without /proc/version), Linux, WSL
NoFile    == [exists |-> FALSE, text |-> ""]
LinuxFile == [exists |-> TRUE, text |-> "Linux version 4.19.121-linuxkit"]
WSLFile   == [exists |-> TRUE, text |-> "Linux version 4.4.0-19041-Microsoft"]

\* Package initialisation of termenv in environment e: the level is detected
\* once and cached, supportColor says whether it is not none, noColor says
\* whether NO_COLOR is present.
TermenvInit(e, w, file) ==
    LET d == detectTermColorLevel(w, e, NoErr)
    IN  /\ env = e
        /\ isWin = w
        /\ procVersion = file
        /\ noColor = IsSet(e, "NO_COLOR")
        /\ colorLevel = d.level
        /\ supportColor = (d.level # TermColorNone)
        /\ backOldVal = FALSE
        /\ lastErr = d.lastErr
        /\ detectedWSL = FALSE
        /\ wslContents = ""
        /\ level = d.level
        /\ needVTP = d.needVTP
        /\ lastOp = "init"
        /\ preForce = <<>>
        /\ wslFirst = <<>>
        /\ wslLast = <<>>
        /\ probeOpens = 0

\* os.Setenv(key, val) by the program around the package
Setenv(key, val) ==
    /\ env' = SetenvIn(env, key, val)
    /\ lastOp' = "Setenv"
    /\ UNCHANGED <<isWin, procVersion, noColor, supportColor, colorLevel, backOldVal,
                   lastErr, detectedWSL, wslContents, level, needVTP, preForce,
                   wslFirst, wslLast, probeOpens>>

\* os.Unsetenv(key) by the program around the package
Unsetenv(key) ==
    /\ key \in DOMAIN env
    /\ env' = UnsetenvIn(env, key)
    /\ lastOp' = "Unsetenv"
    /\ UNCHANGED <<isWin, procVersion, noColor, supportColor, colorLevel, backOldVal,
                   lastErr, detectedWSL, wslContents, level, needVTP, preForce,
                   wslFirst, wslLast, probeOpens>>

\* ForceEnableColor saving the value after it has forced it
ForceEnableColor_saveAfter ==
    /\ noColor' = FALSE
    /\ supportColor' = TRUE
    /\ backOldVal' = supportColor'
    /\ preForce' = <<supportColor>>
    /\ lastOp' = "ForceEnableColor"
    /\ UNCHANGED <<env, isWin, procVersion, colorLevel, lastErr, detectedWSL,
                   wslContents, level, needVTP, wslFirst, wslLast, probeOpens>>

ForceEnableColor ==
    /\ noColor' = FALSE
    /\ backOldVal' = supportColor
    /\ supportColor' = TRUE
    /\ preForce' = <<supportColor>>
    /\ lastOp' = "ForceEnableColor"
    /\ UNCHANGED <<env, isWin, procVersion, colorLevel, lastErr, detectedWSL,
                   wslContents, level, needVTP, wslFirst, wslLast, probeOpens>>

RevertColorSupport ==
    /\ supportColor' = backOldVal
    /\ noColor' = (Getenv(env, "NO_COLOR") = "")
    /\ lastOp' = "RevertColorSupport"
    /\ UNCHANGED <<env, isWin, procVersion, colorLevel, backOldVal, lastErr,
                   detectedWSL, wslContents, level, needVTP, preForce, wslFirst,
                   wslLast, probeOpens>>

\* DetectColorLevel that also stores what it detected in the package's cache
DetectColorLevel_caching ==
    LET d == detectTermColorLevel(isWin, env, lastErr)
    IN  /\ level' = d.level
        /\ needVTP' = d.needVTP
        /\ colorLevel' = d.level
        /\ supportColor' = (d.level # TermColorNone)
        /\ lastErr' = d.lastErr
        /\ lastOp' = "DetectColorLevel"
        /\ UNCHANGED <<env, isWin, procVersion, noColor, backOldVal, detectedWSL,
                       wslContents, preForce, wslFirst, wslLast, probeOpens>>

\* DetectColorLevel(): level is what it returns; needVTP is the second result
\* of detectTermColorLevel, which it drops
DetectColorLevel ==
    LET d == detectTermColorLevel(isWin, env, lastErr)
    IN  /\ level' = d.level
        /\ needVTP' = d.needVTP
        /\ lastErr' = d.lastErr
        /\ lastOp' = "DetectColorLevel"
        /\ UNCHANGED <<env, isWin, procVersion, noColor, supportColor, colorLevel,
                       backOldVal, detectedWSL, wslContents, preForce, wslFirst,
                       wslLast, probeOpens>>

\* a call of detectColorLevelFromEnv(os.Getenv("TERM"), isWin) on its own
CallDetectColorLevelFromEnv ==
    LET r == detectColorLevelFromEnv(Getenv(env, "TERM"), isWin, env, lastErr)
    IN  /\ level' = r.level
        /\ lastErr' = r.lastErr
        /\ lastOp' = "detectColorLevelFromEnv"
        /\ UNCHANGED <<env, isWin, procVersion, noColor, supportColor, colorLevel,
                       backOldVal, detectedWSL, wslContents, needVTP, preForce,
                       wslFirst, wslLast, probeOpens>>

\* a call of detectWSL() on its own
CallDetectWSL ==
    \E closeFails \in BOOLEAN :
        LET r == detectWSL(detectedWSL, wslContents, lastErr, procVersion, closeFails)
        IN  /\ detectedWSL' = r.detectedWSL
            /\ wslContents' = r.wslContents
            /\ lastErr' = r.lastErr
            /\ wslFirst' = IF wslFirst = <<>> THEN <<r.ret>> ELSE wslFirst
            /\ wslLast' = <<r.ret>>
            /\ probeOpens' = probeOpens + r.opened
            /\ lastOp' = "detectWSL"
            /\ UNCHANGED <<env, isWin, procVersion, noColor, supportColor, colorLevel,
                           backOldVal, level, needVTP, preForce>>

-----------------------------------------------------------------------------
(* testutil: mocking of the process environment.                           *)

MaxClock == 1

\* os.Setenv(key, val) as testutil calls it, the error dropped: a name that
\* is empty or holds "=" is refused and the environment stays as it is
SetenvOrSkip(e, key, val) ==
    IF key = "" \/ Contains(key, "=") THEN e ELSE SetenvIn(e, key, val)

RECURSIVE SetToSeq(_)
SetToSeq(S) ==
    IF S = {} THEN <<>>
    ELSE LET x == CHOOSE y \in S : TRUE IN <<x>> \o SetToSeq(S \ {x})

\* os.Environ(): the "key=value" strings of environment e
Environ(e) == SetToSeq({k \o "=" \o e[k] : k \in DOMAIN e})

\* for key, val := range mp { _ = os.Setenv(key, val) }
RECURSIVE SetenvMap(_, _, _)
SetenvMap(e, mp, keys) ==
    IF keys = <<>> THEN e
    ELSE SetenvMap(SetenvOrSkip(e, Head(keys), mp[Head(keys)]), mp, Tail(keys))

\* for key := range mp { _ = os.Unsetenv(key) }
UnsetenvMap(e, mp) == [k \in (DOMAIN e) \ (DOMAIN mp) |-> e[k]]

\* for _, str := range envBak { nodes := SplitN(str, "=", 2); Setenv(nodes[0], nodes[1]) }
RECURSIVE SetenvStrs(_, _)
SetenvStrs(e, strs) ==
    IF strs = <<>> THEN e
    ELSE LET nodes == SplitN2(Head(strs), "=")
         IN  SetenvStrs(SetenvOrSkip(e, nodes[1], nodes[2]), Tail(strs))

\* os.Clearenv() followed by the loop over envBak
RestoreEnvBak(bak) == SetenvStrs(EmptyEnv, bak)

Base32Digits == "0123456789abcdefghijklmnopqrstuv"

\* strconv.FormatInt(n, 32) for n >= 0
RECURSIVE FormatInt32(_)
FormatInt32(n) ==
    IF n < 32 THEN SubSeq(Base32Digits, n + 1, n + 1)
    ELSE FormatInt32(n \div 32) \o SubSeq(Base32Digits, (n % 32) + 1, (n % 32) + 1)

\* the group key SetOsEnvs makes at time t
TmpKey(t) == "g_" \o FormatInt32(t)

\* the maps the mocking calls are given
MockMaps ==
    { EmptyEnv,
      MkEnv([A |-> "2"]),
      MkEnv([A |-> "", B |-> "1"]) }

\* the environments the process may start in
StartEnvs == {MkEnv([A |-> a, B |-> b]) : a \in {Unset, "", "1"}, b \in {Unset, "x=y"}}

TestutilInit(e) ==
    /\ env = e
    /\ envBak = Environ(e)
    /\ envGroupSet = EmptyEnv
    /\ clock = 0
    /\ envBefore = EmptyEnv
    /\ envInFn = EmptyEnv
    /\ mockMp = EmptyEnv
    /\ lastOp = "init"

\* time passes
Tick ==
    /\ clock < MaxClock
    /\ clock' = clock + 1
    /\ UNCHANGED <<env, envBak, envGroupSet, envBefore, envInFn, mockMp, lastOp>>

\* MockEnvValue(key, val, fn) with a callback that leaves the environment alone
MockEnvValue(key, val) ==
    LET old == Getenv(env, key)
    IN  /\ env' = IF old = "" THEN UnsetenvIn(SetenvOrSkip(env, key, val), key)
                  ELSE SetenvOrSkip(SetenvOrSkip(env, key, val), key, old)
        /\ lastOp' = "MockEnvValue"
        /\ UNCHANGED <<envBak, envGroupSet, clock, envBefore, envInFn, mockMp>>

SetOsEnvs(mp) ==
    /\ envGroupSet' = SetenvIn(envGroupSet, TmpKey(clock), mp)
    /\ env' = SetenvMap(env, mp, SetToSeq(DOMAIN mp))
    /\ lastOp' = "SetOsEnvs"
    /\ UNCHANGED <<envBak, clock, envBefore, envInFn, mockMp>>

RemoveTmpEnvs(tmpKey) ==
    /\ IF tmpKey \in DOMAIN envGroupSet
       THEN /\ env' = UnsetenvMap(env, envGroupSet[tmpKey])
            /\ envGroupSet' = UnsetenvIn(envGroupSet, tmpKey)
       ELSE UNCHANGED <<env, envGroupSet>>
    /\ lastOp' = "RemoveTmpEnvs"
    /\ UNCHANGED <<envBak, clock, envBefore, envInFn, mockMp>>

ClearOSEnv ==
    /\ env' = EmptyEnv
    /\ lastOp' = "ClearOSEnv"
    /\ UNCHANGED <<envBak, envGroupSet, clock, envBefore, envInFn, mockMp>>

RevertOSEnv ==
    /\ env' = RestoreEnvBak(envBak)
    /\ lastOp' = "RevertOSEnv"
    /\ UNCHANGED <<envBak, envGroupSet, clock, envBefore, envInFn, mockMp>>

\* RunOnCleanEnv(runFn): whatever runFn does to the environment, the
\* os.Clearenv() of RevertOSEnv wipes it
RunOnCleanEnv ==
    /\ envBefore' = env
    /\ envInFn' = EmptyEnv
    /\ mockMp' = EmptyEnv
    /\ env' = RestoreEnvBak(envBak)
    /\ lastOp' = "RunOnCleanEnv"
    /\ UNCHANGED <<envBak, envGroupSet, clock>>

\* MockCleanOsEnv(mp, fn); MockOsEnv and MockOsEnvByText end in this call.
\* envInFn is the environment fn is entered with; whatever fn does to it,
\* the second os.Clearenv() wipes it.
MockCleanOsEnv(mp) ==
    /\ envBefore' = env
    /\ mockMp' = mp
    /\ envInFn' = SetenvMap(EmptyEnv, mp, SetToSeq(DOMAIN mp))
    /\ env' = RestoreEnvBak(envBak)
    /\ lastOp' = "MockCleanOsEnv"
    /\ UNCHANGED <<envBak, envGroupSet, clock>>

-----------------------------------------------------------------------------
(* cflag: App.                                                             *)

DefaultNameWidth == 12

\* filepath.Base(os.Args[0])
BinName == "app"

ErrHelp == "flag: help requested"
ErrFlag == "flag provided but not defined"
ErrFunc == "command func failed"

\* IsFlagHelpErr(err)
IsFlagHelpErr(err) == err = ErrHelp

\* the byte order of the characters that names are made of
Alphabet == "-0123456789_abcdefghijklmnopqrstuvwxyz"

RECURSIVE StrLess(_, _)
\* a < b, as Go compares strings
StrLess(a, b) ==
    IF b = "" THEN FALSE
    ELSE IF a = "" THEN TRUE
    ELSE IF SubSeq(a, 1, 1) = SubSeq(b, 1, 1)
    THEN StrLess(SubSeq(a, 2, Len(a)), SubSeq(b, 2, Len(b)))
    ELSE IndexOf(Alphabet, SubSeq(a, 1, 1)) < IndexOf(Alphabet, SubSeq(b, 1, 1))

RECURSIVE Insert(_, _)
Insert(x, sorted) ==
    IF sorted = <<>> THEN <<x>>
    ELSE IF StrLess(Head(sorted), x) THEN <<Head(sorted)>> \o Insert(x, Tail(sorted))
    ELSE <<x>> \o sorted

RECURSIVE SortStrings(_)
\* sort.Strings(ss)
SortStrings(ss) == IF ss = <<>> THEN <<>> ELSE Insert(Head(ss), SortStrings(Tail(ss)))

\* mathutil.MaxInt(a, b)
MaxInt(a, b) == IF a > b THEN a ELSE b

\* one step of a run, as the trace keeps it
Event(ev, cmd, ok, err) == [ev |-> ev, cmd |-> cmd, ok |-> ok, err |-> err]

\* the commands a program adds
Commands ==
    { [Name |-> "build", Func |-> TRUE],
      [Name |-> "add",   Func |-> FALSE],
      [Name |-> "",      Func |-> TRUE] }

\* the argument lists a program is run with
ArgLists ==
    { <<>>, <<"help">>, <<"-x">>, <<"build">>, <<"build", "-x">>, <<"add">>, <<"test">> }

\* NewApp(fns...): fns choose the hooks that are set
AppInit(h) ==
    /\ appName = ""
    /\ names = <<>>
    /\ cmds = EmptyEnv
    /\ nameWidth = DefaultNameWidth
    /\ helpWriter = "stdout"
    /\ hooks = h
    /\ panicked = FALSE
    /\ runArgs = <<>>
    /\ trace = <<>>
    /\ runErr = NoErr
    /\ lastOp = "init"

\* App.Add(c) for one command: addCmd.  The handle func is attached to the
\* command's flags when c.Func is set (cmdParse runs it); c.OnAdd only
\* configures the command's own flags.
Add(c) ==
    /\ ~panicked
    /\ IF Len(c.Name) = 0 \/ c.Name \in DOMAIN cmds
       THEN /\ panicked' = TRUE
            /\ UNCHANGED <<names, cmds, nameWidth>>
       ELSE /\ names' = Append(names, c.Name)
            /\ cmds' = SetenvIn(cmds, c.Name, c)
            /\ nameWidth' = MaxInt(nameWidth, Len(c.Name))
            /\ UNCHANGED panicked
    /\ lastOp' = "Add"
    /\ UNCHANGED <<appName, helpWriter, hooks, runArgs, trace, runErr>>

\* App.preRun(args), given the error gErr of parsing the global flags
preRun(args, gErr) ==
    IF gErr # NoErr /\ IsFlagHelpErr(gErr) THEN [showHelp |-> TRUE, err |-> NoErr]
    ELSE IF Len(args) = 0 \/ args[1] = "" THEN [showHelp |-> TRUE, err |-> NoErr]
    ELSE IF args[1] = "help" \/ args[1] = "--help" \/ args[1] = "-h"
    THEN [showHelp |-> TRUE, err |-> NoErr]
    ELSE [showHelp |-> FALSE, err |-> gErr]

\* Cmd.Parse(cmdArgs): the command's flags are parsed, then its Func runs
cmdParse(c, parseErr, funcErr) ==
    IF parseErr # NoErr THEN [events |-> <<Event("cmd.Parse", c.Name, FALSE, parseErr)>>,
                              err |-> parseErr]
    ELSE IF c.Func
    THEN [events |-> <<Event("cmd.Parse", c.Name, TRUE, NoErr),
                       Event("cmd.Func", c.Name, funcErr = NoErr, funcErr)>>,
          err |-> funcErr]
    ELSE [events |-> <<Event("cmd.Parse", c.Name, TRUE, NoErr)>>, err |-> NoErr]

\* the run of RunWithArgs(args) after a.init(): the trace it leaves, the
\* error it returns and whether it showed the help.  gErr is the outcome of
\* parsing the global flags, parsedOk and beforeOk are what the hooks
\* OnAppFlagParsed and BeforeRun return, parseErr and funcErr the outcome of
\* the command.
runWithArgs_afterAlways(args, gErr, parsedOk, beforeOk, parseErr, funcErr) ==
    LET pre    == preRun(args, gErr)
        first  == args[1]
        evP    == IF hooks.OnAppFlagParsed
                  THEN <<Event("OnAppFlagParsed", "", parsedOk, NoErr)>> ELSE <<>>
        evB    == IF hooks.BeforeRun
                  THEN <<Event("BeforeRun", first, beforeOk, NoErr)>> ELSE <<>>
        run    == cmdParse(cmds[first], parseErr, funcErr)
        evA(e) == IF hooks.AfterRun THEN <<Event("AfterRun", first, e = NoErr, e)>> ELSE <<>>
    IN  IF pre.showHelp
        THEN [trace |-> <<Event("showHelp", "", TRUE, NoErr)>>, err |-> NoErr, help |-> TRUE]
        ELSE IF pre.err # NoErr
        THEN [trace |-> <<>>, err |-> pre.err, help |-> FALSE]
        ELSE IF hooks.OnAppFlagParsed /\ ~parsedOk
        THEN [trace |-> evP, err |-> NoErr, help |-> FALSE]
        ELSE IF first \notin DOMAIN cmds
        THEN [trace |-> evP, err |-> "input not exists command", help |-> FALSE]
        ELSE IF hooks.BeforeRun /\ ~beforeOk
        THEN [trace |-> evP \o evB \o evA(NoErr), err |-> NoErr, help |-> FALSE]
        ELSE [trace |-> evP \o evB \o run.events \o evA(run.err),
              err |-> run.err, help |-> FALSE]

runWithArgs(args, gErr, parsedOk, beforeOk, parseErr, funcErr) ==
    LET pre    == preRun(args, gErr)
        first  == args[1]
        evP    == IF hooks.OnAppFlagParsed
                  THEN <<Event("OnAppFlagParsed", "", parsedOk, NoErr)>> ELSE <<>>
        evB    == IF hooks.BeforeRun
                  THEN <<Event("BeforeRun", first, beforeOk, NoErr)>> ELSE <<>>
        run    == cmdParse(cmds[first], parseErr, funcErr)
        evA(e) == IF hooks.AfterRun THEN <<Event("AfterRun", first, e = NoErr, e)>> ELSE <<>>
    IN  IF pre.showHelp
        THEN [trace |-> <<Event("showHelp", "", TRUE, NoErr)>>, err |-> NoErr, help |-> TRUE]
        ELSE IF pre.err # NoErr
        THEN [trace |-> <<>>, err |-> pre.err, help |-> FALSE]
        ELSE IF hooks.OnAppFlagParsed /\ ~parsedOk
        THEN [trace |-> evP, err |-> NoErr, help |-> FALSE]
        ELSE IF first \notin DOMAIN cmds
        THEN [trace |-> evP, err |-> "input not exists command", help |-> FALSE]
        ELSE IF hooks.BeforeRun /\ ~beforeOk
        THEN [trace |-> evP \o evB, err |-> NoErr, help |-> FALSE]
        ELSE [trace |-> evP \o evB \o run.events \o evA(run.err),
              err |-> run.err, help |-> FALSE]

\* what a hook may return: a hook that is nil is not called
HookReturns(hook) == IF hooks[hook] THEN BOOLEAN ELSE {TRUE}

\* App.RunWithArgs(args)
RunWithArgs(args) ==
    /\ ~panicked
    /\ \E gErr \in {NoErr, ErrHelp, ErrFlag},
          parsedOk \in HookReturns("OnAppFlagParsed"),
          beforeOk \in HookReturns("BeforeRun"),
          parseErr \in {NoErr, ErrFlag}, funcErr \in {NoErr, ErrFunc} :
          LET r == runWithArgs(args, gErr, parsedOk, beforeOk, parseErr, funcErr)
          IN  /\ trace' = IF r.help /\ hooks.AfterHelpBuild
                          THEN r.trace \o <<Event("AfterHelpBuild", "", TRUE, NoErr)>>
                          ELSE r.trace
              /\ runErr' = r.err
              /\ names' = IF r.help THEN SortStrings(names) ELSE names
              /\ helpWriter' = IF r.help /\ helpWriter = "nil" THEN "stdout" ELSE helpWriter
    /\ appName' = IF appName = "" THEN BinName ELSE appName
    /\ runArgs' = args
    /\ lastOp' = "RunWithArgs"
    /\ UNCHANGED <<cmds, nameWidth, hooks, panicked>>

-----------------------------------------------------------------------------
(* The specifications: one per package, the other packages left at rest.   *)

TermenvIdle ==
    /\ isWin = FALSE
    /\ procVersion = NoFile
    /\ noColor = FALSE
    /\ supportColor = FALSE
    /\ colorLevel = TermColorNone
    /\ backOldVal = FALSE
    /\ lastErr = NoErr
    /\ detectedWSL = FALSE
    /\ wslContents = ""
    /\ level = TermColorNone
    /\ needVTP = FALSE
    /\ preForce = <<>>
    /\ wslFirst = <<>>
    /\ wslLast = <<>>
    /\ probeOpens = 0

TestutilIdle ==
    /\ envBak = <<>>
    /\ envGroupSet = EmptyEnv
    /\ clock = 0
    /\ envBefore = EmptyEnv
    /\ envInFn = EmptyEnv
    /\ mockMp = EmptyEnv

AppIdle ==
    /\ appName = ""
    /\ names = <<>>
    /\ cmds = EmptyEnv
    /\ nameWidth = DefaultNameWidth
    /\ helpWriter = "stdout"
    /\ hooks = [OnAppFlagParsed |-> FALSE, BeforeRun |-> FALSE, AfterRun |-> FALSE,
                AfterHelpBuild |-> FALSE]
    /\ panicked = FALSE
    /\ runArgs = <<>>
    /\ trace = <<>>
    /\ runErr = NoErr

\* the values a program gives the variables the color flags read
ColorValues(key) ==
    IF key = "TERM" THEN {"xterm"}
    ELSE IF key = "NO_COLOR" THEN {"", "1"}
    ELSE IF key = "TERM_PROGRAM" THEN {"iTerm.app"}
    ELSE {"abc"}

ColorKeys == {"TERM", "NO_COLOR", "TERM_PROGRAM", "TERM_PROGRAM_VERSION"}

ColorSnapshots ==
    { MkEnv([TERM |-> t, NO_COLOR |-> nc, TERM_PROGRAM |-> tp, TERM_PROGRAM_VERSION |-> ver]) :
        t \in {Unset} \cup ColorValues("TERM"),
        nc \in {Unset} \cup ColorValues("NO_COLOR"),
        tp \in {Unset} \cup ColorValues("TERM_PROGRAM"),
        ver \in {Unset} \cup ColorValues("TERM_PROGRAM_VERSION") }

InitColor ==
    /\ \E e \in ColorSnapshots, w \in BOOLEAN, file \in {NoFile, LinuxFile, WSLFile} :
          TermenvInit(e, w, file)
    /\ TestutilIdle
    /\ AppIdle

NextColor ==
    \/ (\E key \in ColorKeys : \E val \in ColorValues(key) : Setenv(key, val))
          /\ UNCHANGED <<testVars, appVars>>
    \/ (\E key \in ColorKeys : Unsetenv(key)) /\ UNCHANGED <<testVars, appVars>>
    \/ ForceEnableColor /\ UNCHANGED <<testVars, appVars>>
    \/ RevertColorSupport /\ UNCHANGED <<testVars, appVars>>
    \/ DetectColorLevel /\ UNCHANGED <<testVars, appVars>>
    \/ CallDetectWSL /\ UNCHANGED <<testVars, appVars>>

SpecColor == InitColor /\ [][NextColor]_vars

\* the values of TERM_PROGRAM_VERSION a detection meets
VersionValues == {"", "3.4.1", "2.9", "abc", ".5", "3", "30.1"}

DetectSnapshots ==
    { MkEnv([TERM |-> t, TERMINAL_EMULATOR |-> te, COLORTERM |-> ct, FORCE_COLOR |-> fc,
             TERM_PROGRAM |-> tp, TERM_PROGRAM_VERSION |-> ver, NO_COLOR |-> nc]) :
        t \in {Unset, "screen", "xterm"},
        te \in {Unset, "JetBrains-JediTerm"},
        ct \in {Unset, "truecolor", "x24bit", "1"},
        fc \in {Unset, "1"},
        tp \in {Unset, "Apple_Terminal", "Terminus", "Hyper", "iTerm.app", "vscode"},
        ver \in {Unset} \cup VersionValues,
        nc \in {Unset, "1"} }

InitDetect ==
    /\ \E e \in DetectSnapshots, w \in BOOLEAN : TermenvInit(e, w, NoFile)
    /\ TestutilIdle
    /\ AppIdle

NextDetect ==
    \/ DetectColorLevel /\ UNCHANGED <<testVars, appVars>>
    \/ CallDetectColorLevelFromEnv /\ UNCHANGED <<testVars, appVars>>
    \/ (\E val \in VersionValues : Setenv("TERM_PROGRAM_VERSION", val))
          /\ UNCHANGED <<testVars, appVars>>

SpecDetect == InitDetect /\ [][NextDetect]_vars

InitEnv ==
    /\ \E e \in StartEnvs : TestutilInit(e)
    /\ TermenvIdle
    /\ AppIdle

NextEnv ==
    \/ Tick /\ UNCHANGED <<termRest, appVars>>
    \/ (\E val \in {"", "3"} : MockEnvValue("A", val)) /\ UNCHANGED <<termRest, appVars>>
    \/ (\E mp \in MockMaps : SetOsEnvs(mp)) /\ UNCHANGED <<termRest, appVars>>
    \/ (\E t \in 0..MaxClock : RemoveTmpEnvs(TmpKey(t))) /\ UNCHANGED <<termRest, appVars>>
    \/ ClearOSEnv /\ UNCHANGED <<termRest, appVars>>
    \/ RevertOSEnv /\ UNCHANGED <<termRest, appVars>>
    \/ RunOnCleanEnv /\ UNCHANGED <<termRest, appVars>>
    \/ (\E mp \in MockMaps : MockCleanOsEnv(mp)) /\ UNCHANGED <<termRest, appVars>>

SpecEnv == InitEnv /\ [][NextEnv]_vars

InitApp ==
    /\ \E h \in [{"OnAppFlagParsed", "BeforeRun", "AfterRun", "AfterHelpBuild"} -> BOOLEAN] :
          AppInit(h)
    /\ env = EmptyEnv
    /\ TermenvIdle
    /\ TestutilIdle

NextApp ==
    \/ (\E c \in Commands : Add(c)) /\ UNCHANGED <<env, termRest, testVars>>
    \/ (\E args \in ArgLists : RunWithArgs(args)) /\ UNCHANGED <<env, termRest, testVars>>

SpecApp == InitApp /\ [][NextApp]_vars

-----------------------------------------------------------------------------
(* The claims.                                                             *)

\* C1: immediately after ForceEnableColor(), IsSupportColor() returns true,
\* whatever the flags and the environment were.
C1_ForcedThenSupportsColor ==
    lastOp = "ForceEnableColor" => IsSupportColor

\* C2: after RevertColorSupport(), NoColor() is true if and only if NO_COLOR
\* is present in the environment (with any value, the empty one included).
C2_RevertNoColorIffPresent ==
    lastOp = "RevertColorSupport" => (NoColor <=> IsSet(env, "NO_COLOR"))

\* C3: a RevertColorSupport() that follows a ForceEnableColor(), with no
\* other ForceEnableColor() in between, leaves supportColor at the value it
\* had when that ForceEnableColor() was entered.
C3_RevertRestoresPreForce ==
    (lastOp = "RevertColorSupport" /\ preForce # <<>>) => supportColor = preForce[1]

\* C3 happens: color was unsupported, was forced on, and is unsupported again
\* after the revert.
C3_Witness ==
    /\ lastOp = "RevertColorSupport"
    /\ preForce = <<FALSE>>
    /\ supportColor = FALSE
    /\ noColor

\* C4: with TERM other than "screen" and TERMINAL_EMULATOR "JetBrains-JediTerm",
\* DetectColorLevel() returns TrueColor with needVTP false, whatever the other
\* inputs are; with TERM "screen" the result is Extended.
C4_JetBrainsShortCircuit ==
    lastOp = "DetectColorLevel" =>
        /\ (Getenv(env, "TERM") # "screen"
              /\ Getenv(env, "TERMINAL_EMULATOR") = "JetBrains-JediTerm")
             => (level = TermColorTrue /\ needVTP = FALSE)
        /\ Getenv(env, "TERM") = "screen" => level = TermColor256

\* C4 happens: JetBrains with NO_COLOR and a COLORTERM that alone would give Basic.
C4_Witness ==
    /\ lastOp = "DetectColorLevel"
    /\ ~IsSet(env, "TERM")
    /\ Getenv(env, "TERMINAL_EMULATOR") = "JetBrains-JediTerm"
    /\ Getenv(env, "NO_COLOR") = "1"
    /\ Getenv(env, "COLORTERM") = "1"
    /\ isWin
    /\ level = TermColorTrue
    /\ ~needVTP

\* the ordered rules a-h of the specification, each a condition and a level
RuleList(e, win) ==
    << [when |-> Getenv(e, "TERM") = "screen", level |-> TermColor256],
       [when |-> Contains(Getenv(e, "COLORTERM"), "truecolor")
                   \/ Contains(Getenv(e, "COLORTERM"), "24bit"), level |-> TermColorTrue],
       [when |-> Getenv(e, "COLORTERM") # "" \/ Getenv(e, "FORCE_COLOR") # "",
        level |-> TermColor16],
       [when |-> Getenv(e, "TERM_PROGRAM") = "Apple_Terminal", level |-> TermColor256],
       [when |-> Getenv(e, "TERM_PROGRAM") \in {"Terminus", "Hyper"}, level |-> TermColorTrue],
       [when |-> Getenv(e, "TERM_PROGRAM") = "iTerm.app",
        level |-> IF Atoi(SplitFirst(Getenv(e, "TERM_PROGRAM_VERSION"), ".")).ok
                     /\ Atoi(SplitFirst(Getenv(e, "TERM_PROGRAM_VERSION"), ".")).val = 3
                  THEN TermColorTrue ELSE TermColor256],
       [when |-> ~win /\ Getenv(e, "TERM") # "", level |-> TermColor16],
       [when |-> TRUE, level |-> TermColorNone] >>

\* the number of the first rule of the list that matches
FirstRule(e, win) ==
    CHOOSE i \in 1..Len(RuleList(e, win)) :
        /\ RuleList(e, win)[i].when
        /\ \A j \in 1..(i - 1) : ~RuleList(e, win)[j].when

\* C5: the level detectColorLevelFromEnv computes is the level of the first
\* rule of the ordered list a-h that matches the environment.
C5_FirstMatchingRule ==
    lastOp = "detectColorLevelFromEnv" =>
        level = RuleList(env, isWin)[FirstRule(env, isWin)].level

\* C5 happens: COLORTERM names truecolor inside a longer value while
\* FORCE_COLOR and an Apple_Terminal TERM_PROGRAM are set too; rule b wins.
C5_Witness ==
    /\ lastOp = "detectColorLevelFromEnv"
    /\ Getenv(env, "COLORTERM") = "x24bit"
    /\ Getenv(env, "FORCE_COLOR") = "1"
    /\ Getenv(env, "TERM_PROGRAM") = "Apple_Terminal"
    /\ Getenv(env, "TERM") = "xterm"
    /\ FirstRule(env, isWin) = 2
    /\ level = TermColorTrue

\* C6, as claimed: DetectColorLevel() leaves the no-color flag, the
\* supports-color flag, the cached level, the saved pre-force value and the
\* last-error slot as they were.
C6_DetectKeepsFlagsAndLastErr ==
    [][lastOp' = "DetectColorLevel" =>
          UNCHANGED <<noColor, supportColor, colorLevel, backOldVal, lastErr>>]_vars

\* C6, amended: DetectColorLevel() leaves the no-color flag, the
\* supports-color flag, the cached level and the saved pre-force value as
\* they were (the last-error slot is not among them).
C6_DetectKeepsFlags ==
    [][lastOp' = "DetectColorLevel" =>
          UNCHANGED <<noColor, supportColor, colorLevel, backOldVal>>]_vars

\* C6 happens: a detection that finds Extended and records an error while the
\* cached level is none, color is forced on and the pre-force value is saved.
C6_Witness ==
    /\ lastOp = "DetectColorLevel"
    /\ level = TermColor256
    /\ lastErr = ErrInvalidTermProgramVersion
    /\ colorLevel = TermColorNone
    /\ supportColor
    /\ preForce = <<FALSE>>
    /\ ~noColor

\* C7: after MockCleanOsEnv(mp, fn) the environment is the one that existed
\* right before the call, and fn was entered with exactly mp.
C7_MockRestoresCallerEnv ==
    lastOp = "MockCleanOsEnv" => (env = envBefore /\ envInFn = mockMp)

\* where an event of a run stands in the order of the hooks
Rank(ev) ==
    IF ev = "OnAppFlagParsed" THEN 1
    ELSE IF ev = "BeforeRun" THEN 2
    ELSE IF ev = "cmd.Parse" THEN 3
    ELSE IF ev = "cmd.Func" THEN 4
    ELSE IF ev = "AfterRun" THEN 5
    ELSE 0

RunEvents == {"OnAppFlagParsed", "BeforeRun", "cmd.Parse", "cmd.Func", "AfterRun"}

\* C8: in a run whose first argument names a registered command the events
\* come in the order OnAppFlagParsed, BeforeRun, command parsing and Func,
\* AfterRun; a BeforeRun that returns false ends the run with nil, with no
\* command parsed or run and no AfterRun; AfterRun gets the error the run
\* returns.
C8_HookOrder ==
    (lastOp = "RunWithArgs" /\ runArgs # <<>> /\ runArgs[1] \in DOMAIN cmds) =>
        /\ \A i, j \in 1..Len(trace) :
              (i < j /\ trace[i].ev \in RunEvents /\ trace[j].ev \in RunEvents)
                 => Rank(trace[i].ev) < Rank(trace[j].ev)
        /\ (\E i \in 1..Len(trace) : trace[i].ev = "BeforeRun" /\ ~trace[i].ok)
              => /\ \A j \in 1..Len(trace) :
                       trace[j].ev \notin {"cmd.Parse", "cmd.Func", "AfterRun"}
                 /\ runErr = NoErr
        /\ \A i \in 1..Len(trace) : trace[i].ev = "AfterRun" => trace[i].err = runErr

\* C8 happens: all three hooks are set, the command's Func fails, and
\* AfterRun is handed that error.
C8_Witness ==
    /\ lastOp = "RunWithArgs"
    /\ runArgs = <<"build", "-x">>
    /\ Len(trace) = 5
    /\ trace[1].ev = "OnAppFlagParsed"
    /\ trace[2].ev = "BeforeRun" /\ trace[2].ok
    /\ trace[4].ev = "cmd.Func"
    /\ trace[5].ev = "AfterRun" /\ trace[5].err = ErrFunc
    /\ runErr = ErrFunc

\* C9: the probe file is opened at most once, and every detectWSL() call
\* returns what the first call returned.
C9_WSLResultReused ==
    /\ probeOpens <= 1
    /\ wslFirst # <<>> => wslLast = wslFirst

\* the environments in which the iTerm.app rule is the first rule that matches
ITermRuleFirst(e) ==
    /\ Getenv(e, "TERM") # "screen"
    /\ Getenv(e, "COLORTERM") = ""
    /\ Getenv(e, "FORCE_COLOR") = ""
    /\ Getenv(e, "TERM_PROGRAM") = "iTerm.app"

\* the major version: the text of TERM_PROGRAM_VERSION before the first ".", parsed
Major(e) == Atoi(SplitFirst(Getenv(e, "TERM_PROGRAM_VERSION"), "."))

\* C10, as claimed: under the iTerm.app rule, for every TERM_PROGRAM_VERSION
\* (the empty one included), a major version that does not parse records the
\* error and gives Extended; 3 gives TrueColor; anything else Extended.
C10_ITermEveryVersion ==
    [][(lastOp' = "detectColorLevelFromEnv" /\ ITermRuleFirst(env)) =>
          /\ ~Major(env).ok
                => (lastErr' = ErrInvalidTermProgramVersion /\ level' = TermColor256)
          /\ (Major(env).ok /\ Major(env).val = 3) => level' = TermColorTrue
          /\ (Major(env).ok /\ Major(env).val # 3) => level' = TermColor256]_vars

\* C10, amended: that holds for every TERM_PROGRAM_VERSION that is not empty;
\* with TERM_PROGRAM_VERSION empty or unset nothing is parsed, no error is
\* recorded and the level is Extended.  A version that parses leaves the
\* last-error slot as it was.
C10_ITermNonEmptyVersion ==
    [][(lastOp' = "detectColorLevelFromEnv" /\ ITermRuleFirst(env)) =>
          /\ (Getenv(env, "TERM_PROGRAM_VERSION") # "" /\ ~Major(env).ok)
                => (lastErr' = ErrInvalidTermProgramVersion /\ level' = TermColor256)
          /\ (Major(env).ok /\ Major(env).val = 3)
                => (level' = TermColorTrue /\ lastErr' = lastErr)
          /\ (Major(env).ok /\ Major(env).val # 3)
                => (level' = TermColor256 /\ lastErr' = lastErr)
          /\ Getenv(env, "TERM_PROGRAM_VERSION") = ""
                => (level' = TermColor256 /\ lastErr' = lastErr)]_vars

\* C10 happens: the version ".5" has an empty major version, which does not
\* parse; the error is recorded and the level is Extended.
C10_Witness ==
    /\ lastOp = "detectColorLevelFromEnv"
    /\ ITermRuleFirst(env)
    /\ Getenv(env, "TERM_PROGRAM_VERSION") = ".5"
    /\ lastErr = ErrInvalidTermProgramVersion
    /\ level = TermColor256

====
